---- MODULE Spec2Model ----
(***************************************************************************)
(* Model of process-i91/main.py: a storage-triggered handler that submits  *)
(* a Document AI batch job, waits for it, flattens the form fields of the  *)
(* job's JSON output and uploads them as one JSON object.                  *)
(*                                                                         *)
(* Text is modelled as a sequence of one-character strings, so that        *)
(* strip, replace, prefix tests, substring tests and the regular           *)
(* expression are computed character by character as Python computes them. *)
(* JSON values are tagged records: [t |-> "dict", d |-> function],         *)
(* [t |-> "list", l |-> sequence], [t |-> "str", s |-> text],              *)
(* [t |-> "num", n |-> hundredths] and [t |-> "null"].                     *)
(***************************************************************************)
EXTENDS Integers, Sequences, FiniteSets, TLC

VARIABLES
    event,              \* process_invoice: the TriggerEvent of each invocation
    pc,                 \* process_invoice: position of each invocation
    operation,          \* process_invoice: local `operation` (handle) or None
    operation_id,       \* process_invoice: local `operation_id` or None
    entities,           \* process_invoice: local `entities` or None
    calls,              \* external calls each invocation has made, in order
    error,              \* exception an invocation ended with, or None
    ops,                \* the external service: operations submitted so far
    objects,            \* the storage bucket: object name -> content
    uploads,            \* every create_json upload so far, in order
    blob_list,          \* get_document_json_from_gcs: the listing it iterates
    flat,               \* get_document_json_from_gcs: its outcome, or None
    text,               \* trim_text: argument
    trimmed,            \* trim_text: return value, or None
    document_entities,  \* extract_document_entities: the dictionary
    seen,               \* extract_document_entities: (key, value) handled so far
    epc                 \* extract_document_entities: "loop" or "returned"

procVars == <<event, pc, operation, operation_id, entities, calls, error, ops,
              objects, uploads>>
flatVars == <<blob_list, flat>>
trimVars == <<text, trimmed>>
entVars == <<document_entities, seen, epc>>
vars == <<procVars, flatVars, trimVars, entVars>>

None == [t |-> "None"]

----------------------------------------------------------------------------
(* Text helpers.                                                           *)

\* Characters str.strip() removes (those of the model's alphabet).
Whitespace == {" ", "\t", "\n", "\r"}

\* All texts over alphabet A of length at most n.
TextsUpTo(A, n) == UNION {[1..k -> A] : k \in 0..n}

RECURSIVE LStrip(_)
LStrip(s) ==
    IF s = <<>> THEN <<>>
    ELSE IF Head(s) \in Whitespace THEN LStrip(Tail(s)) ELSE s

RECURSIVE RStrip(_)
RStrip(s) ==
    IF s = <<>> THEN <<>>
    ELSE IF s[Len(s)] \in Whitespace THEN RStrip(SubSeq(s, 1, Len(s) - 1)) ELSE s

\* str.strip()
Strip(s) == RStrip(LStrip(s))

\* str.replace(old, new) for a one-character old and new
RECURSIVE Replace(_, _, _)
Replace(s, old, new) ==
    IF s = <<>> THEN <<>>
    ELSE <<IF Head(s) = old THEN new ELSE Head(s)>> \o Replace(Tail(s), old, new)

\* trim_text with the strip() left out.
trim_text_nostrip(s) == Replace(s, "\n", " ")

\* trim_text(text): text.strip().replace("\n", " ")
trim_text(s) == Replace(Strip(s), "\n", " ")

----------------------------------------------------------------------------
(* trim_text on its own.                                                   *)

MaxTextLen == 4

TrimAlphabet == {" ", "\n", "\t", "a"}

\* "  Total\nAmount \n"
ExampleText ==
    <<" ", " ", "T", "o", "t", "a", "l", "\n",
      "A", "m", "o", "u", "n", "t", " ", "\n">>

\* "Total Amount"
ExampleTrimmed ==
    <<"T", "o", "t", "a", "l", " ", "A", "m", "o", "u", "n", "t">>

InitProcIdle ==
    /\ event = <<>> /\ pc = <<>> /\ operation = <<>> /\ operation_id = <<>>
    /\ entities = <<>> /\ calls = <<>> /\ error = <<>>
    /\ ops = {} /\ objects = <<>> /\ uploads = <<>>

InitFlatIdle == blob_list = <<>> /\ flat = None

InitTrimIdle == text = <<>> /\ trimmed = None

\* The empty Python dict.
EmptyDict == [k \in {} |-> None]

InitEntIdle == document_entities = EmptyDict /\ seen = <<>> /\ epc = "idle"

InitTrim ==
    /\ text \in TextsUpTo(TrimAlphabet, MaxTextLen) \cup {ExampleText}
    /\ trimmed = None
    /\ InitProcIdle /\ InitFlatIdle /\ InitEntIdle

CallTrimText ==
    /\ trimmed = None
    /\ trimmed' = [t |-> "str", s |-> trim_text(text)]
    /\ UNCHANGED <<text, procVars, flatVars, entVars>>

NextTrim == CallTrimText

SpecTrim == InitTrim /\ [][NextTrim]_vars

\* Each maximal run of newlines replaced by one space.
RECURSIVE CollapseNewlineRuns(_)
CollapseNewlineRuns(s) ==
    IF s = <<>> THEN <<>>
    ELSE IF Head(s) # "\n" THEN <<Head(s)>> \o CollapseNewlineRuns(Tail(s))
    ELSE IF Len(s) > 1 /\ s[2] = "\n" THEN CollapseNewlineRuns(Tail(s))
    ELSE <<" ">> \o CollapseNewlineRuns(Tail(s))

NoOuterWhitespace(s) ==
    s # <<>> => (s[1] \notin Whitespace /\ s[Len(s)] \notin Whitespace)

\* The part of txt that is left when the whitespace at both ends is cut off:
\* txt[i..j], with only whitespace before i and after j.
IsCore(txt, i, j) ==
    /\ \A k \in 1..(i - 1) : txt[k] \in Whitespace
    /\ \A k \in (j + 1)..Len(txt) : txt[k] \in Whitespace
    /\ i <= j => (txt[i] \notin Whitespace /\ txt[j] \notin Whitespace)

----------------------------------------------------------------------------
(* extract_document_entities: entities and their properties flattened into *)
(* a dictionary keyed by entity type.                                      *)

MaxOccurrences == 3

\* Python truthiness of the values the code tests with `if x:`.
Truthy(x) ==
    CASE x.t = "None" -> FALSE
      [] x.t = "str" -> x.s # <<>>
      [] x.t = "list" -> x.l # <<>>
      [] OTHER -> TRUE

EntityTypes == {<<"a", "/", "b">>, <<"c">>}

MentionTexts == {<<>>, <<"A">>, <<"B">>}

NormalizedValues == {None, [t |-> "msg", text |-> <<"N">>]}

SubEntities ==
    [type_ : EntityTypes, mention_text : MentionTexts,
     normalized_value : NormalizedValues]

\* Entities whose properties number at most n.
EntitiesUpTo(n) ==
    [type_ : EntityTypes, mention_text : MentionTexts,
     normalized_value : NormalizedValues,
     properties : UNION {[1..k -> SubEntities] : k \in 0..n}]

\* entity.type_.replace('/', '_')
entity_key(entity) == Replace(entity.type_, "/", "_")

\* normalized_value.text if normalized_value else entity.mention_text
new_entity_value(entity) ==
    IF Truthy(entity.normalized_value)
    THEN entity.normalized_value.text
    ELSE entity.mention_text

\* dict.get(key)
DictGet(d, key) == IF key \in DOMAIN d THEN d[key] ELSE None

\* d[key] = value
DictSet(d, key, value) ==
    [k \in DOMAIN d \cup {key} |-> IF k = key THEN value ELSE d[k]]

\* The inner function extract_document_entity, as a map from the dictionary
\* before to the dictionary after.
extract_document_entity(d, entity) ==
    LET key == entity_key(entity)
        value == new_entity_value(entity)
        existing_entity == DictGet(d, key)
    IN  IF Truthy(existing_entity)
        THEN LET as_list == IF existing_entity.t = "list"
                            THEN existing_entity.l
                            ELSE <<existing_entity.s>>
             IN  DictSet(d, key, [t |-> "list", l |-> Append(as_list, value)])
        ELSE DictSet(d, key, [t |-> "str", s |-> value])

RECURSIVE ExtractAll(_, _)
ExtractAll(d, es) ==
    IF es = <<>> THEN d
    ELSE ExtractAll(extract_document_entity(d, Head(es)), Tail(es))

\* The (key, value) pairs of a sequence of entities, in order.
Occurrences(es) ==
    [k \in 1..Len(es) |-> <<entity_key(es[k]), new_entity_value(es[k])>>]

InitEntities ==
    /\ document_entities = EmptyDict
    /\ seen = <<>>
    /\ epc = "loop"
    /\ InitProcIdle /\ InitFlatIdle /\ InitTrimIdle

\* One iteration of `for entity in document.entities`: the entity, then each
\* of its properties.
ExtractEntity ==
    /\ epc = "loop"
    /\ Len(seen) < MaxOccurrences
    /\ \E entity \in EntitiesUpTo(MaxOccurrences - Len(seen) - 1) :
          LET es == <<entity>> \o entity.properties
          IN  /\ document_entities' = ExtractAll(document_entities, es)
              /\ seen' = seen \o Occurrences(es)
    /\ UNCHANGED <<epc, procVars, flatVars, trimVars>>

\* return document_entities
ReturnEntities ==
    /\ epc = "loop"
    /\ epc' = "returned"
    /\ UNCHANGED <<document_entities, seen, procVars, flatVars, trimVars>>

NextEntities == ExtractEntity \/ ReturnEntities

SpecEntities == InitEntities /\ [][NextEntities]_vars

\* The values seen for a key, in encounter order.
RECURSIVE ValuesOf(_, _)
ValuesOf(key, occ) ==
    IF occ = <<>> THEN <<>>
    ELSE (IF Head(occ)[1] = key THEN <<Head(occ)[2]>> ELSE <<>>)
             \o ValuesOf(key, Tail(occ))

EntityKeys == {Replace(ty, "/", "_") : ty \in EntityTypes}

\* C6: after any sequence of entities and properties, a key that occurred
\* once maps to that occurrence's value as a scalar, a key that occurred
\* n >= 2 times maps to the list of all n values in encounter order, and a
\* key that never occurred is absent.
C6_ScalarThenList ==
    epc \in {"loop", "returned"} =>
        \A key \in EntityKeys :
            LET vs == ValuesOf(key, seen)
            IN  /\ Len(vs) = 0 => key \notin DOMAIN document_entities
                /\ Len(vs) = 1 =>
                      /\ key \in DOMAIN document_entities
                      /\ document_entities[key] = [t |-> "str", s |-> vs[1]]
                /\ Len(vs) >= 2 =>
                      /\ key \in DOMAIN document_entities
                      /\ document_entities[key] = [t |-> "list", l |-> vs]

----------------------------------------------------------------------------
(* JSON values and the nested-key probe.                                   *)

Dict(f) == [t |-> "dict", d |-> f]
List(l) == [t |-> "list", l |-> l]
Str(s) == [t |-> "str", s |-> s]
\* A JSON number with two decimals, held as hundredths: Num(98) is 0.98.
Num(n) == [t |-> "num", n |-> n]
JNull == [t |-> "null"]
\* Bytes that are not JSON text.
NotJson == [t |-> "notjson"]

DigitChar(d) == <<"0", "1", "2", "3", "4", "5", "6", "7", "8", "9">>[d + 1]

RECURSIVE IntStr(_)
IntStr(n) == IF n < 10 THEN <<DigitChar(n)>>
             ELSE IntStr(n \div 10) \o <<DigitChar(n % 10)>>

\* str() of a float with at most two decimals: 0.98 -> "0.98", 0.9 -> "0.9",
\* 1.0 -> "1.0".
FloatStr(h) ==
    IntStr(h \div 100) \o <<".">> \o
        (IF h % 10 = 0 THEN <<DigitChar((h % 100) \div 10)>>
         ELSE <<DigitChar((h % 100) \div 10), DigitChar(h % 10)>>)

\* str(x) for the values a confidence holds in the model.
PyStr(x) ==
    CASE x.t = "num" -> FloatStr(x.n)
      [] x.t = "str" -> x.s
      [] x.t = "null" -> <<"N", "o", "n", "e">>

\* _element[key]: the value, or the exception Python raises.
Subscript(element, key) ==
    IF element.t = "dict"
    THEN IF key \in DOMAIN element.d
         THEN [exc |-> "none", v |-> element.d[key]]
         ELSE [exc |-> "KeyError"]
    ELSE [exc |-> "TypeError"]

\* The loop of keys_exists: "True", "False" or the exception that escapes.
RECURSIVE KeysLoop(_, _)
KeysLoop(element, keys) ==
    IF keys = <<>> THEN "True"
    ELSE LET r == Subscript(element, Head(keys))
         IN  CASE r.exc = "KeyError" -> "False"
               [] r.exc = "none" -> KeysLoop(r.v, Tail(keys))
               [] OTHER -> r.exc

\* keys_exists(element, *keys)
keys_exists(element, keys) ==
    IF element.t # "dict" THEN "AttributeError"
    ELSE IF Len(keys) = 0 THEN "AttributeError"
    ELSE KeysLoop(element, keys)

----------------------------------------------------------------------------
(* get_document_json_from_gcs.                                             *)

RequiredPaths ==
    << <<"fieldName", "textAnchor", "content">>,
       <<"fieldName", "confidence">>,
       <<"fieldValue", "textAnchor", "content">>,
       <<"fieldValue", "confidence">> >>

\* The `and` chain of line 205, left to right with short circuit: "True",
\* "False" or the exception of the first probe that raises.
RECURSIVE AllKeysExist(_, _)
AllKeysExist(field, paths) ==
    IF paths = <<>> THEN "True"
    ELSE LET r == keys_exists(field, Head(paths))
         IN  IF r = "True" THEN AllKeysExist(field, Tail(paths)) ELSE r

\* trim_text applied to a JSON value: a str is trimmed, anything else has no
\* strip().
TrimValue(x) ==
    IF x.t = "str" THEN [exc |-> "none", s |-> trim_text(x.s)]
    ELSE [exc |-> "AttributeError"]

\* Lines 205-212 for one entry of formFields: a record, a skip or a raise.
FlattenField(field) ==
    LET probe == AllKeysExist(field, RequiredPaths)
    IN  IF probe = "False" THEN [kind |-> "skip"]
        ELSE IF probe # "True" THEN [kind |-> "raise", exc |-> probe]
        ELSE
          LET fieldName == TrimValue(field.d["fieldName"].d["textAnchor"].d["content"])
              fieldNameConfidence ==
                  trim_text(PyStr(field.d["fieldName"].d["confidence"]))
              fieldValue == TrimValue(field.d["fieldValue"].d["textAnchor"].d["content"])
              fieldValueConfidence ==
                  trim_text(PyStr(field.d["fieldValue"].d["confidence"]))
          IN  IF fieldName.exc # "none" \/ fieldValue.exc # "none"
              THEN [kind |-> "raise", exc |-> "AttributeError"]
              ELSE [kind |-> "record",
                    item |-> [fieldName |-> fieldName.s,
                              fieldNameConfidence |-> fieldNameConfidence,
                              fieldValue |-> fieldValue.s,
                              fieldValueConfidence |-> fieldValueConfidence]]

\* for field in page["formFields"], from entry k on.
RECURSIVE FlattenFields(_, _, _)
FlattenFields(fields, k, acc) ==
    IF k > Len(fields) THEN [exc |-> "none", acc |-> acc, field |-> 0]
    ELSE LET r == FlattenField(fields[k])
         IN  CASE r.kind = "raise" -> [exc |-> r.exc, acc |-> acc, field |-> k]
               [] r.kind = "skip" -> FlattenFields(fields, k + 1, acc)
               [] r.kind = "record" ->
                      FlattenFields(fields, k + 1, Append(acc, r.item))

\* for page in json_data["pages"], from page k on.
RECURSIVE FlattenPages(_, _, _)
FlattenPages(pages, k, acc) ==
    IF k > Len(pages) THEN [exc |-> "none", acc |-> acc, page |-> 0, field |-> 0]
    ELSE LET has == keys_exists(pages[k], <<"formFields">>)
         IN  IF has = "False" THEN FlattenPages(pages, k + 1, acc)
             ELSE IF has # "True"
             THEN [exc |-> has, acc |-> acc, page |-> k, field |-> 0]
             ELSE LET r == FlattenFields(pages[k].d["formFields"].l, 1, acc)
                  IN  IF r.exc # "none"
                      THEN [exc |-> r.exc, acc |-> r.acc, page |-> k,
                            field |-> r.field]
                      ELSE FlattenPages(pages, k + 1, r.acc)

\* The test of line 193 as a test of the end of the name.
IsJsonName_suffix(name) ==
    /\ Len(name) >= 5
    /\ SubSeq(name, Len(name) - 4, Len(name)) = <<".", "j", "s", "o", "n">>

\* ".json" in blob.name
IsJsonName(name) ==
    \E i \in 1..(Len(name) - 4) :
        SubSeq(name, i, i + 4) = <<".", "j", "s", "o", "n">>

\* Lines 194-213 for one blob: json.loads, json_data["pages"], the pages.
FlattenBlob(blob, acc) ==
    IF blob.content.t = "notjson"
    THEN [exc |-> "JSONDecodeError", acc |-> acc, page |-> 0, field |-> 0]
    ELSE LET pages == Subscript(blob.content, "pages")
         IN  IF pages.exc # "none"
             THEN [exc |-> pages.exc, acc |-> acc, page |-> 0, field |-> 0]
             ELSE FlattenPages(pages.v.l, 1, acc)

\* for blob in blob_list, from blob k on; n counts the downloads.
RECURSIVE FlattenBlobs(_, _, _, _)
FlattenBlobs(blobs, k, acc, n) ==
    IF k > Len(blobs)
    THEN [status |-> "returned", json_objects |-> acc, downloads |-> n]
    ELSE IF ~IsJsonName(blobs[k].name) THEN FlattenBlobs(blobs, k + 1, acc, n)
    ELSE LET r == FlattenBlob(blobs[k], acc)
         IN  IF r.exc # "none"
             THEN [status |-> "raised", exc |-> r.exc, json_objects |-> r.acc,
                   downloads |-> n + 1, at |-> <<k, r.page, r.field>>]
             ELSE FlattenBlobs(blobs, k + 1, r.acc, n + 1)

\* get_document_json_from_gcs, given the listing list_blobs returned.
get_document_json_from_gcs(blobs) == FlattenBlobs(blobs, 1, <<>>, 0)

----------------------------------------------------------------------------
(* get_document_json_from_gcs on its own: every listing up to a size.      *)

\* Size of a listing: its blobs plus their pages plus their form fields.
MaxListingSize == 6

\* One side of a form field: {textAnchor: {content}, confidence}.
Side(content, confidence) ==
    Dict([textAnchor |-> Dict([content |-> content]), confidence |-> confidence])

\* " Total\n" and "4\n2 "
NameText == <<" ", "T", "o", "t", "a", "l", "\n">>
ValueText == <<"4", "\n", "2", " ">>

NameA == Side(Str(NameText), Num(98))
ValueA == Side(Str(ValueText), Num(90))
NameB == Side(Str(<<"B">>), JNull)
ValueB == Side(Str(<<>>), Num(100))

FieldEntries ==
    { \* complete entries
      Dict([fieldName |-> NameA, fieldValue |-> ValueA]),
      Dict([fieldName |-> NameB, fieldValue |-> ValueB]),
      \* fieldName absent
      Dict([fieldValue |-> ValueA]),
      \* fieldName.confidence absent
      Dict([fieldName |-> Dict([textAnchor |-> Dict([content |-> Str(<<"B">>)])]),
            fieldValue |-> ValueA]),
      \* fieldValue.textAnchor.content absent
      Dict([fieldName |-> NameA,
            fieldValue |-> Dict([textAnchor |-> Dict(EmptyDict),
                                 confidence |-> Num(90)])]),
      \* fieldName absent, fieldValue a string
      Dict([fieldValue |-> Str(<<"x">>)]),
      \* fieldName a string: the path breaks at a value that is no dict
      Dict([fieldName |-> Str(<<"x">>), fieldValue |-> ValueA]),
      \* fieldValue.textAnchor null: the path breaks one level down
      Dict([fieldName |-> NameA,
            fieldValue |-> Dict([textAnchor |-> JNull, confidence |-> Num(90)])]),
      \* all four paths present, content a number
      Dict([fieldName |-> Side(Num(7), Num(98)), fieldValue |-> ValueA]) }

\* Object names under one output directory, in the store's (lexicographic)
\* listing order: "a.json", "b.txt", "c.jsonl".
ListedNames ==
    << <<"a", ".", "j", "s", "o", "n">>,
       <<"b", ".", "t", "x", "t">>,
       <<"c", ".", "j", "s", "o", "n", "l">> >>

\* What an object of a given name can hold before pages are added to it.
BlobContents(name) ==
    IF name = ListedNames[2] THEN {NotJson}
    ELSE {NotJson, Dict(EmptyDict), Dict([pages |-> List(<<>>)])}

NameIndex(name) == CHOOSE j \in 1..Len(ListedNames) : ListedNames[j] = name

HasPages(blob) == blob.content.t = "dict" /\ "pages" \in DOMAIN blob.content.d

PagesOf(blob) == blob.content.d["pages"].l

HasFormFields(page) == "formFields" \in DOMAIN page.d

PageSize(page) ==
    1 + (IF HasFormFields(page) THEN Len(page.d["formFields"].l) ELSE 0)

RECURSIVE PagesSize(_)
PagesSize(pages) ==
    IF pages = <<>> THEN 0 ELSE PageSize(Head(pages)) + PagesSize(Tail(pages))

BlobSize(blob) == 1 + (IF HasPages(blob) THEN PagesSize(PagesOf(blob)) ELSE 0)

RECURSIVE ListingSize(_)
ListingSize(blobs) ==
    IF blobs = <<>> THEN 0 ELSE BlobSize(Head(blobs)) + ListingSize(Tail(blobs))

\* The listing with its last blob's pages replaced.
WithLastPages(blobs, ps) ==
    [blobs EXCEPT ![Len(blobs)].content = Dict([pages |-> List(ps)])]

InitFlatten ==
    /\ blob_list = <<>>
    /\ flat = None
    /\ InitProcIdle /\ InitTrimIdle /\ InitEntIdle

\* The store lists one more object.
ListBlob ==
    /\ flat = None
    /\ ListingSize(blob_list) < MaxListingSize
    /\ \E j \in 1..Len(ListedNames) :
          /\ blob_list # <<>> => j > NameIndex(blob_list[Len(blob_list)].name)
          /\ \E c \in BlobContents(ListedNames[j]) :
                blob_list' = Append(blob_list, [name |-> ListedNames[j], content |-> c])
    /\ UNCHANGED <<flat, procVars, trimVars, entVars>>

\* The last object listed holds one more page.
ListPage ==
    /\ flat = None
    /\ ListingSize(blob_list) < MaxListingSize
    /\ blob_list # <<>> /\ HasPages(blob_list[Len(blob_list)])
    /\ \E p \in {Dict(EmptyDict), Dict([formFields |-> List(<<>>)])} :
          blob_list' = WithLastPages(blob_list,
                                     Append(PagesOf(blob_list[Len(blob_list)]), p))
    /\ UNCHANGED <<flat, procVars, trimVars, entVars>>

\* The last page holds one more form field.
ListField ==
    /\ flat = None
    /\ ListingSize(blob_list) < MaxListingSize
    /\ blob_list # <<>> /\ HasPages(blob_list[Len(blob_list)])
    /\ LET ps == PagesOf(blob_list[Len(blob_list)])
       IN  /\ ps # <<>> /\ HasFormFields(ps[Len(ps)])
           /\ \E e \in FieldEntries :
                 blob_list' = WithLastPages(blob_list,
                     [ps EXCEPT ![Len(ps)] =
                         Dict([formFields |-> List(Append(@.d["formFields"].l, e))])])
    /\ UNCHANGED <<flat, procVars, trimVars, entVars>>

CallGetDocumentJson ==
    /\ flat = None
    /\ flat' = get_document_json_from_gcs(blob_list)
    /\ UNCHANGED <<blob_list, procVars, trimVars, entVars>>

NextFlatten == ListBlob \/ ListPage \/ ListField \/ CallGetDocumentJson

SpecFlatten == InitFlatten /\ [][NextFlatten]_vars

\* A nested path is present: every key on it is found in a dict.
RECURSIVE PathPresent(_, _)
PathPresent(x, path) ==
    \/ path = <<>>
    \/ /\ x.t = "dict"
       /\ Head(path) \in DOMAIN x.d
       /\ PathPresent(x.d[Head(path)], Tail(path))

\* An entry with all four required paths.
Complete(entry) ==
    \A k \in 1..Len(RequiredPaths) : PathPresent(entry, RequiredPaths[k])

\* The entry at a place <<blob, page, field>> of a listing.
EntryAt(blobs, at) ==
    blobs[at[1]].content.d["pages"].l[at[2]].d["formFields"].l[at[3]]

\* C3: an entry in which one of the four required paths is not present never
\* makes get_document_json_from_gcs raise, whatever sits where the path
\* breaks: if the call raised at a form-field entry, that entry is complete.
C3_IncompleteNeverRaises ==
    (flat # None /\ flat.status = "raised" /\ flat.at[3] > 0) =>
        Complete(EntryAt(blob_list, flat.at))

\* The record of a complete entry with text contents.
RecordOf(entry) ==
    [fieldName |-> trim_text(entry.d["fieldName"].d["textAnchor"].d["content"].s),
     fieldNameConfidence |-> trim_text(PyStr(entry.d["fieldName"].d["confidence"])),
     fieldValue |-> trim_text(entry.d["fieldValue"].d["textAnchor"].d["content"].s),
     fieldValueConfidence |-> trim_text(PyStr(entry.d["fieldValue"].d["confidence"]))]

RECURSIVE RecordsOfFields(_)
RecordsOfFields(fields) ==
    IF fields = <<>> THEN <<>>
    ELSE (IF Complete(Head(fields)) THEN <<RecordOf(Head(fields))>> ELSE <<>>)
             \o RecordsOfFields(Tail(fields))

RECURSIVE RecordsOfPages(_)
RecordsOfPages(pages) ==
    IF pages = <<>> THEN <<>>
    ELSE (IF "formFields" \in DOMAIN Head(pages).d
          THEN RecordsOfFields(Head(pages).d["formFields"].l)
          ELSE <<>>)
             \o RecordsOfPages(Tail(pages))

HasDotJson(name) ==
    \E i \in 1..Len(name) : \E j \in i..Len(name) :
        SubSeq(name, i, j) = <<".", "j", "s", "o", "n">>

RECURSIVE RecordsOfListing(_)
RecordsOfListing(blobs) ==
    IF blobs = <<>> THEN <<>>
    ELSE (IF HasDotJson(Head(blobs).name)
          THEN RecordsOfPages(Head(blobs).content.d["pages"].l)
          ELSE <<>>)
             \o RecordsOfListing(Tail(blobs))

\* A blob the records of which are defined: a document with pages, the
\* contents of its complete entries text.
Flattenable(blob) ==
    /\ HasPages(blob)
    /\ \A p \in 1..Len(PagesOf(blob)) :
          HasFormFields(PagesOf(blob)[p]) =>
              \A f \in 1..Len(PagesOf(blob)[p].d["formFields"].l) :
                  LET entry == PagesOf(blob)[p].d["formFields"].l[f]
                  IN  Complete(entry) =>
                        /\ entry.d["fieldName"].d["textAnchor"].d["content"].t = "str"
                        /\ entry.d["fieldValue"].d["textAnchor"].d["content"].t = "str"

\* C4: the sequence get_document_json_from_gcs returns is the records of
\* the complete entries, by blob whose name contains ".json", then page,
\* then entry, in listing order, nothing else, nothing twice; and a blob
\* whose name does not contain ".json" never aborts the run.
C4_RecordsInEncounterOrder ==
    flat # None =>
        /\ flat.status = "returned" =>
              /\ \A k \in 1..Len(blob_list) :
                    HasDotJson(blob_list[k].name) => Flattenable(blob_list[k])
              /\ flat.json_objects = RecordsOfListing(blob_list)
        /\ flat.status = "raised" => HasDotJson(blob_list[flat.at[1]].name)

\* A run returned two different records, one from the first blob listed and
\* one from the last.
C4_Witness ==
    /\ flat # None /\ flat.status = "returned"
    /\ Len(blob_list) >= 2
    /\ Len(flat.json_objects) = 2
    /\ flat.json_objects[1] # flat.json_objects[2]
    /\ get_document_json_from_gcs(<<blob_list[1]>>).json_objects
           = <<flat.json_objects[1]>>
    /\ get_document_json_from_gcs(<<blob_list[Len(blob_list)]>>).json_objects
           = <<flat.json_objects[2]>>

----------------------------------------------------------------------------
(* process_invoice: the storage bucket, the external service and the       *)
(* invocations of the handler.                                             *)

\* Invocations of process_invoice running against the one bucket.
MaxInvocations == 2

ACCEPTED_MIME_TYPES ==
    {"application/pdf", "image/jpeg", "image/png", "image/tiff", "image/gif"}

\* gcs_output_uri_prefix, as the environment sets it: "o"
gcs_output_uri_prefix == <<"o">>

DotJson == <<".", "j", "s", "o", "n">>

\* "extractedjson/"
ExtractedJsonDir ==
    <<"e", "x", "t", "r", "a", "c", "t", "e", "d", "j", "s", "o", "n", "/">>

\* "operations/"
OperationsSlash == <<"o", "p", "e", "r", "a", "t", "i", "o", "n", "s", "/">>

Digits == {"0", "1", "2", "3", "4", "5", "6", "7", "8", "9"}

\* The characters of object names, in code point order.
CodePointOrder ==
    <<"-", ".", "/", "0", "1", "2", "3", "4", "5", "6", "7", "8", "9",
      "a", "b", "c", "d", "e", "f", "g", "h", "i", "j", "k", "l", "m",
      "n", "o", "p", "q", "r", "s", "t", "u", "v", "w", "x", "y", "z">>

CodePoint(c) == CHOOSE k \in 1..Len(CodePointOrder) : CodePointOrder[k] = c

\* a < b as Python and the store compare strings.
RECURSIVE LexLess(_, _)
LexLess(a, b) ==
    IF b = <<>> THEN FALSE
    ELSE IF a = <<>> THEN TRUE
    ELSE IF Head(a) = Head(b) THEN LexLess(Tail(a), Tail(b))
    ELSE CodePoint(Head(a)) < CodePoint(Head(b))

RECURSIVE SortNames(_)
SortNames(S) ==
    IF S = {} THEN <<>>
    ELSE LET least == CHOOSE a \in S : \A b \in S \ {a} : LexLess(a, b)
         IN  <<least>> \o SortNames(S \ {least})

\* str.startswith, the store's prefix filter
StartsWith(s, prefix) ==
    Len(prefix) <= Len(s) /\ SubSeq(s, 1, Len(prefix)) = prefix

\* list(storage_client.list_blobs(bucket, prefix=prefix)): the objects whose
\* name begins with the prefix, in name order.
list_blobs(store, prefix) ==
    LET names == SortNames({n \in DOMAIN store : StartsWith(n, prefix)})
    IN  [k \in 1..Len(names) |-> [name |-> names[k], content |-> store[names[k]]]]

\* re.IGNORECASE for the letters of "operations".
LowerCase(c) ==
    CASE c = "O" -> "o" [] c = "P" -> "p" [] c = "E" -> "e" [] c = "R" -> "r"
      [] c = "A" -> "a" [] c = "T" -> "t" [] c = "I" -> "i" [] c = "N" -> "n"
      [] c = "S" -> "s" [] OTHER -> c

\* "operations/" followed by a digit starts at position i.
MatchesAt(name, i) ==
    /\ i + Len(OperationsSlash) <= Len(name)
    /\ \A k \in 1..Len(OperationsSlash) :
          LowerCase(name[i + k - 1]) = OperationsSlash[k]
    /\ name[i + Len(OperationsSlash)] \in Digits

\* The longest run of digits of s from position i on.
RECURSIVE DigitRun(_, _)
DigitRun(s, i) ==
    IF i <= Len(s) /\ s[i] \in Digits THEN <<s[i]>> \o DigitRun(s, i + 1) ELSE <<>>

\* re.search(r"operations\/(\d+)", name, re.IGNORECASE): group(1) of the
\* leftmost match, or None when nothing matches.
OperationIdOf(name) ==
    IF \E i \in 1..Len(name) : MatchesAt(name, i)
    THEN LET i == CHOOSE i \in 1..Len(name) :
                     MatchesAt(name, i) /\ \A j \in 1..(i - 1) : ~MatchesAt(name, j)
         IN  Str(DigitRun(name, i + Len(OperationsSlash)))
    ELSE None

\* Resource names the service assigns, each with the identifier the service
\* itself files the output under: "p/operations/1", "p/operations/12",
\* "p/Operations/2" and a name that holds no identifier, "p/operations/x".
OperationNames ==
    { [name |-> <<"p", "/">> \o OperationsSlash \o <<"1">>, id |-> <<"1">>],
      [name |-> <<"p", "/">> \o OperationsSlash \o <<"1", "2">>, id |-> <<"1", "2">>],
      [name |-> <<"p", "/", "O">> \o Tail(OperationsSlash) \o <<"2">>, id |-> <<"2">>],
      [name |-> <<"p", "/">> \o OperationsSlash \o <<"x">>, id |-> <<"x">>] }

\* json.dumps of the list of field items: the JSON value uploaded.
ToJson(items) ==
    List([k \in 1..Len(items) |->
            Dict([fieldName |-> Str(items[k].fieldName),
                  fieldNameConfidence |-> Str(items[k].fieldNameConfidence),
                  fieldValue |-> Str(items[k].fieldValue),
                  fieldValueConfidence |-> Str(items[k].fieldValueConfidence)])])

\* The document the service writes for an operation: one page, one form
\* field whose name is the input object's name and whose value is the
\* operation's identifier.
ServiceDocument(op) ==
    Dict([pages |-> List(<<Dict([formFields |-> List(<<
        Dict([fieldName |-> Side(Str(op.input), Num(98)),
              fieldValue |-> Side(Str(op.id), Num(90))]) >>)]) >>)])

\* Where the service writes it: {destination}{operation id}/0/{input}.json
ServiceObjectName(op) ==
    op.dest \o op.id \o <<"/", "0", "/">> \o op.input \o DotJson

Invocations == DOMAIN event

\* A content type string of the event.
Mime(m) == [t |-> "mime", v |-> m]

\* mime_type in ACCEPTED_MIME_TYPES
Accepted(mime_type) == mime_type.t = "mime" /\ mime_type.v \in ACCEPTED_MIME_TYPES

\* event.get(key): the value, or None when the key is absent.
Buckets == {None, Str(<<>>), Str(<<"b">>)}
ObjectNames == {None, Str(<<>>), Str(<<"f">>), Str(<<"g">>)}
ContentTypes ==
    {None} \cup {Mime(m) : m \in {"text/plain", "application/json"} \cup ACCEPTED_MIME_TYPES}

TriggerEvents == [bucket : Buckets, name : ObjectNames, contentType : ContentTypes]

\* The events of the runs that share a bucket.
SharedBucketEvents ==
    { [bucket |-> Str(<<"b">>), name |-> Str(<<"f">>), contentType |-> Mime("application/pdf")],
      [bucket |-> Str(<<"b">>), name |-> Str(<<"g">>), contentType |-> Mime("image/png")],
      [bucket |-> Str(<<"b">>), name |-> Str(<<"f">>), contentType |-> Mime("text/plain")] }

\* A gate that checks the bucket and the name only.
Gate_nomime(e) ==
    IF ~Truthy(e.bucket) \/ ~Truthy(e.name) THEN "return" ELSE "pass"

\* Lines 223-233: "return" (early return), "pass", or the exception raised.
\* 'Cannot parse the file type: ' + mime_type raises TypeError when
\* mime_type is None.
Gate(e) ==
    IF ~Truthy(e.bucket) \/ ~Truthy(e.name) THEN "return"
    ELSE IF ~Accepted(e.contentType)
         THEN (IF e.contentType.t = "None" THEN "TypeError" ELSE "return")
         ELSE "pass"

\* Line 261 with the operation identifier in the name.
extract_filename_byop(i) ==
    ExtractedJsonDir \o event[i].name.s \o operation_id[i].s \o DotJson

\* Line 261 without the input name.
extract_filename_fixed(i) == ExtractedJsonDir \o DotJson

\* Line 261: f"extractedjson/{input_filename}.json"
extract_filename(i) == ExtractedJsonDir \o event[i].name.s \o DotJson

\* Line 255: f"{gcs_output_uri_prefix}/{operation_id}"
output_directory(i) == gcs_output_uri_prefix \o <<"/">> \o operation_id[i].s

InitProc(events) ==
    /\ event \in events
    /\ pc = [i \in DOMAIN event |-> "start"]
    /\ operation = [i \in DOMAIN event |-> None]
    /\ operation_id = [i \in DOMAIN event |-> None]
    /\ entities = [i \in DOMAIN event |-> None]
    /\ calls = [i \in DOMAIN event |-> <<>>]
    /\ error = [i \in DOMAIN event |-> None]
    /\ ops = {}
    /\ objects = EmptyDict
    /\ uploads = <<>>
    /\ InitFlatIdle /\ InitTrimIdle /\ InitEntIdle

\* Concurrent invocations on one bucket.
Init == InitProc([1..MaxInvocations -> SharedBucketEvents])

\* One invocation, any trigger event.
InitInvocation == InitProc([1..1 -> TriggerEvents])

Raise(i, exc) ==
    /\ pc' = [pc EXCEPT ![i] = "raised"]
    /\ error' = [error EXCEPT ![i] = [t |-> "exception", type |-> exc]]

Called(i, what) == calls' = [calls EXCEPT ![i] = Append(@, what)]

\* Lines 223-235: the trigger gate.
Validate(i) ==
    /\ pc[i] = "start"
    /\ LET g == Gate(event[i])
       IN  CASE g = "return" -> pc' = [pc EXCEPT ![i] = "returned"] /\ UNCHANGED error
             [] g = "pass" -> pc' = [pc EXCEPT ![i] = "submit"] /\ UNCHANGED error
             [] OTHER -> Raise(i, g)
    /\ UNCHANGED <<event, operation, operation_id, entities, calls, ops, objects,
                   uploads, flatVars, trimVars, entVars>>

\* Lines 237-246: _batch_process_documents returns an operation handle.
Submit(i) ==
    /\ pc[i] = "submit"
    /\ \E nm \in OperationNames :
          /\ \A op \in ops : op.name # nm.name
          /\ operation' = [operation EXCEPT ![i] = [t |-> "handle", name |-> nm.name]]
          /\ ops' = ops \cup {[name |-> nm.name, id |-> nm.id,
                               input |-> event[i].name.s,
                               dest |-> gcs_output_uri_prefix \o <<"/">>,
                               done |-> FALSE]}
    /\ pc' = [pc EXCEPT ![i] = "wait"]
    /\ Called(i, "batch_process_documents")
    /\ UNCHANGED <<event, operation_id, entities, error, objects, uploads,
                   flatVars, trimVars, entVars>>

\* Line 139 raises: the service is unreachable or rejects the request.
SubmitFail(i) ==
    /\ pc[i] = "submit"
    /\ Called(i, "batch_process_documents")
    /\ Raise(i, "GoogleAPICallError")
    /\ UNCHANGED <<event, operation, operation_id, entities, ops, objects, uploads,
                   flatVars, trimVars, entVars>>

\* The external service finishes an operation: it writes the output object.
ServiceFinish ==
    /\ \E op \in ops :
          /\ ~op.done
          /\ ops' = (ops \ {op}) \cup {[op EXCEPT !.done = TRUE]}
          /\ objects' = DictSet(objects, ServiceObjectName(op), ServiceDocument(op))
    /\ UNCHANGED <<event, pc, operation, operation_id, entities, calls, error,
                   uploads, flatVars, trimVars, entVars>>

OperationDone(i) == \E op \in ops : op.name = operation[i].name /\ op.done

\* Line 249: operation.result(timeout=timeout) returns.
WaitDone(i) ==
    /\ pc[i] = "wait"
    /\ OperationDone(i)
    /\ Called(i, "result")
    /\ pc' = [pc EXCEPT ![i] = "extract"]
    /\ UNCHANGED <<event, operation, operation_id, entities, error, ops, objects,
                   uploads, flatVars, trimVars, entVars>>

\* A wait that goes on to the next step when the deadline passes.
WaitTimeout_goeson(i) ==
    /\ pc[i] = "wait"
    /\ ~OperationDone(i)
    /\ Called(i, "result")
    /\ pc' = [pc EXCEPT ![i] = "extract"]
    /\ UNCHANGED <<event, operation, operation_id, entities, error, ops, objects,
                   uploads, flatVars, trimVars, entVars>>

\* Line 249: the deadline passes before the operation is done.
WaitTimeout(i) ==
    /\ pc[i] = "wait"
    /\ ~OperationDone(i)
    /\ Called(i, "result")
    /\ Raise(i, "TimeoutError")
    /\ UNCHANGED <<event, operation, operation_id, entities, ops, objects, uploads,
                   flatVars, trimVars, entVars>>

\* Lines 252-256: re.search(...).group(1); None has no group().
ExtractOperationId(i) ==
    /\ pc[i] = "extract"
    /\ LET m == OperationIdOf(operation[i].name)
       IN  IF m = None
           THEN /\ Raise(i, "AttributeError")
                /\ UNCHANGED operation_id
           ELSE /\ operation_id' = [operation_id EXCEPT ![i] = m]
                /\ pc' = [pc EXCEPT ![i] = "fetch"]
                /\ UNCHANGED error
    /\ UNCHANGED <<event, operation, entities, calls, ops, objects, uploads,
                   flatVars, trimVars, entVars>>

RECURSIVE Repeat(_, _)
Repeat(x, n) == IF n = 0 THEN <<>> ELSE <<x>> \o Repeat(x, n - 1)

\* Lines 258-259: get_document_json_from_gcs(input_bucket, output_directory).
GetDocumentJson(i) ==
    /\ pc[i] = "fetch"
    /\ LET r == get_document_json_from_gcs(list_blobs(objects, output_directory(i)))
       IN  /\ calls' = [calls EXCEPT ![i] =
                          @ \o <<"list_blobs">> \o Repeat("download_as_string", r.downloads)]
           /\ IF r.status = "returned"
              THEN /\ entities' = [entities EXCEPT ![i] = List(r.json_objects)]
                   /\ pc' = [pc EXCEPT ![i] = "upload"]
                   /\ UNCHANGED error
              ELSE /\ Raise(i, r.exc)
                   /\ UNCHANGED entities
    /\ UNCHANGED <<event, operation, operation_id, ops, objects, uploads,
                   flatVars, trimVars, entVars>>

\* Lines 188-189 raise: the listing fails.
ListFail(i) ==
    /\ pc[i] = "fetch"
    /\ Called(i, "list_blobs")
    /\ Raise(i, "GoogleAPICallError")
    /\ UNCHANGED <<event, operation, operation_id, entities, ops, objects, uploads,
                   flatVars, trimVars, entVars>>

\* Lines 261-262 and create_json: the upload replaces the object of that name.
CreateJson(i) ==
    /\ pc[i] = "upload"
    /\ LET filename == extract_filename(i)
           data == ToJson(entities[i].l)
       IN  /\ objects' = DictSet(objects, filename, data)
           /\ uploads' = Append(uploads, [inv |-> i, input |-> event[i].name.s,
                                          opid |-> operation_id[i].s,
                                          filename |-> filename, data |-> data])
    /\ Called(i, "upload_from_string")
    /\ pc' = [pc EXCEPT ![i] = "returned"]
    /\ UNCHANGED <<event, operation, operation_id, entities, error, ops,
                   flatVars, trimVars, entVars>>

\* Line 39 raises: nothing is written.
CreateJsonFail(i) ==
    /\ pc[i] = "upload"
    /\ Called(i, "upload_from_string")
    /\ Raise(i, "GoogleAPICallError")
    /\ UNCHANGED <<event, operation, operation_id, entities, ops, objects, uploads,
                   flatVars, trimVars, entVars>>

Next ==
    \/ \E i \in Invocations : Validate(i)
    \/ \E i \in Invocations : Submit(i)
    \/ \E i \in Invocations : SubmitFail(i)
    \/ \E i \in Invocations : WaitDone(i)
    \/ \E i \in Invocations : WaitTimeout(i)
    \/ \E i \in Invocations : ExtractOperationId(i)
    \/ \E i \in Invocations : GetDocumentJson(i)
    \/ \E i \in Invocations : ListFail(i)
    \/ \E i \in Invocations : CreateJson(i)
    \/ \E i \in Invocations : CreateJsonFail(i)
    \/ ServiceFinish

Spec == Init /\ [][Next]_vars

SpecInvocation == InitInvocation /\ [][Next]_vars

----------------------------------------------------------------------------
(* Properties of process_invoice.                                          *)

\* An event the gate is to turn away: bucket or name missing or empty, or a
\* content type that is none of the five accepted ones.
Rejected(e) ==
    \/ e.bucket \in {None, Str(<<>>)}
    \/ e.name \in {None, Str(<<>>)}
    \/ e.contentType \notin {Mime(m) : m \in ACCEPTED_MIME_TYPES}

UploadsBy(i) == {k \in 1..Len(uploads) : uploads[k].inv = i}

\* The objects create_json has written.
Published == {n \in DOMAIN objects : StartsWith(n, ExtractedJsonDir)}

\* C1: an invocation whose event has an empty or absent bucket or name, or
\* a content type outside the five accepted ones, makes no external call
\* (no submission, wait, listing, download or upload), holds no operation
\* handle and produces no output object.
C1_RejectedMakesNoCall ==
    \A i \in Invocations :
        Rejected(event[i]) =>
            /\ calls[i] = <<>>
            /\ operation[i] = None
            /\ UploadsBy(i) = {}
            /\ (Invocations = {i} => (ops = {} /\ DOMAIN objects = {}))

\* The gate has turned away an event with a bucket, a name and the content
\* type "text/plain".
C1_Witness ==
    \E i \in Invocations :
        /\ pc[i] = "returned"
        /\ Truthy(event[i].bucket) /\ Truthy(event[i].name)
        /\ event[i].contentType = Mime("text/plain")

\* C2: every rejection by the gate is silent: the invocation of a rejected
\* event, an event without contentType included, ends with an early return
\* and no error.
C2_RejectionIsSilent ==
    \A i \in Invocations :
        (Rejected(event[i]) /\ pc[i] # "start") =>
            (pc[i] = "returned" /\ error[i] = None)

PipelineCalls ==
    <<"batch_process_documents", "result", "list_blobs", "upload_from_string">>

\* The calls made so far are a beginning of: submit, wait, list, downloads,
\* upload.
InPipelineOrder(c) ==
    /\ Len(c) >= 1 => c[1] = "batch_process_documents"
    /\ Len(c) >= 2 => c[2] = "result"
    /\ Len(c) >= 3 => c[3] = "list_blobs"
    /\ \A k \in 4..Len(c) :
          \/ c[k] = "download_as_string"
          \/ c[k] = "upload_from_string" /\ k = Len(c)

PcRank(p) ==
    CASE p = "start" -> 0 [] p = "submit" -> 1 [] p = "wait" -> 2
      [] p = "extract" -> 3 [] p = "fetch" -> 4 [] p = "upload" -> 5
      [] p = "returned" -> 6 [] p = "raised" -> 6

C7_State ==
    \A i \in Invocations :
        /\ InPipelineOrder(calls[i])
        /\ \A w \in 1..Len(PipelineCalls) :
              Cardinality({k \in 1..Len(calls[i]) : calls[i][k] = PipelineCalls[w]}) <= 1
        /\ (calls[i] # <<>> /\ calls[i][Len(calls[i])] = "upload_from_string") =>
              /\ OperationDone(i)
              /\ operation_id[i] # None
              /\ entities[i] # None
        /\ pc[i] = "raised" => (error[i] # None /\ UploadsBy(i) = {})
        /\ (operation[i] # None /\ OperationIdOf(operation[i].name) = None) =>
              (pc[i] \in {"wait", "extract", "raised"} /\ UploadsBy(i) = {})
        /\ (Invocations = {i} /\ UploadsBy(i) = {}) => Published = {}

C7_Step ==
    \A i \in Invocations :
        LET uploadsAfter == {k \in 1..Len(uploads') : uploads'[k].inv = i}
        IN  /\ PcRank(pc'[i]) >= PcRank(pc[i])
            /\ pc[i] \in {"returned", "raised"} =>
                  (pc'[i] = pc[i] /\ calls'[i] = calls[i] /\ uploadsAfter = UploadsBy(i))
            /\ uploadsAfter # UploadsBy(i) => pc[i] = "upload"
            /\ calls'[i] # calls[i] => PcRank(pc'[i]) > PcRank(pc[i])

\* C7: within one invocation the calls go submit, wait, list and fetch,
\* upload, each at most once and only forward; the upload follows a wait
\* that found the operation done, the extraction of the identifier and the
\* flattening; an invocation that raised (submission, timeout, no match of
\* the resource name, storage) has written nothing, and once an invocation
\* has ended it makes no further call.
C7_StrictlySequential == []C7_State /\ [][C7_Step]_vars

\* An invocation went through the whole pipeline.
C7_Witness ==
    \E i \in Invocations :
        /\ pc[i] = "returned"
        /\ calls[i] = <<"batch_process_documents", "result", "list_blobs",
                        "download_as_string", "upload_from_string">>

\* The last upload to a name.
LastUploadTo(filename) ==
    uploads[CHOOSE k \in 1..Len(uploads) :
                /\ uploads[k].filename = filename
                /\ \A l \in (k + 1)..Len(uploads) : uploads[l].filename # filename]

\* C8: under any interleaving, uploads for different input names go to
\* different objects, each upload goes to "extractedjson/{name}.json", and
\* the object stored under a name is exactly what the last upload to that
\* name sent.
C8_LastWriterWins ==
    /\ \A k, l \in 1..Len(uploads) :
          uploads[k].input # uploads[l].input =>
              uploads[k].filename # uploads[l].filename
    /\ \A k \in 1..Len(uploads) :
          /\ uploads[k].filename = ExtractedJsonDir \o uploads[k].input \o DotJson
          /\ uploads[k].filename \in DOMAIN objects
          /\ objects[uploads[k].filename] = LastUploadTo(uploads[k].filename).data
    /\ Published = {uploads[k].filename : k \in 1..Len(uploads)}

\* Two invocations for the same input name have uploaded different data, and
\* an invocation for another name has not.
C8_Witness ==
    /\ Len(uploads) = 2
    /\ uploads[1].inv # uploads[2].inv
    /\ uploads[1].input = uploads[2].input
    /\ uploads[1].data # uploads[2].data
    /\ objects[uploads[1].filename] = uploads[2].data

\* An invocation that ran to the upload.
Succeeded(i) == pc[i] = "returned" /\ UploadsBy(i) # {}

FilenamesBy(I) == {uploads[k].filename : k \in {k \in 1..Len(uploads) : uploads[k].inv \in I}}

\* C9 as stated: two successful runs for one input, with different
\* operation identifiers, leave two distinct published output objects.
C9_RerunAddsObject ==
    \A i, j \in Invocations :
        (/\ i # j /\ Succeeded(i) /\ Succeeded(j)
         /\ event[i].name = event[j].name
         /\ operation_id[i] # operation_id[j]) =>
            /\ Cardinality(FilenamesBy({i, j})) = 2
            /\ FilenamesBy({i, j}) \subseteq Published

\* C9 as amended: two successful runs for one input, with different
\* operation identifiers, leave one published output object,
\* "extractedjson/{name}.json", which the later upload has overwritten; the
\* bucket holds one published object per input name, however many runs.
C9_RerunOverwrites ==
    /\ \A i, j \in Invocations :
          (/\ i # j /\ Succeeded(i) /\ Succeeded(j)
           /\ event[i].name = event[j].name
           /\ operation_id[i] # operation_id[j]) =>
              /\ FilenamesBy({i, j}) = {ExtractedJsonDir \o event[i].name.s \o DotJson}
              /\ FilenamesBy({i, j}) \subseteq Published
    /\ Cardinality(Published) = Cardinality({uploads[k].input : k \in 1..Len(uploads)})

\* Two runs for one input have both succeeded, with different identifiers.
C9_Witness ==
    \E i, j \in Invocations :
        /\ i # j /\ Succeeded(i) /\ Succeeded(j)
        /\ event[i].name = event[j].name
        /\ operation_id[i] # operation_id[j]

\* C10: what an invocation flattens comes only from the output of its own
\* operation: every record carries the invocation's own operation
\* identifier (the service writes the identifier as the field's value).
C10_OwnOperationOnly ==
    \A i \in Invocations :
        entities[i] # None =>
            \A k \in 1..Len(entities[i].l) :
                entities[i].l[k].fieldValue = operation_id[i].s

====
